---- MODULE Spec2Model ----
(***************************************************************************)
(* ClientCtapHID (capsules/src/usb/usbc_ctap_hid.rs): the USB HID client   *)
(* that carries 64-byte CTAP packets over one interrupt IN and one         *)
(* interrupt OUT endpoint.                                                 *)
(*                                                                         *)
(* The driver's fields are the variables tx_packet, pending_in,            *)
(* pending_out, delayed_out, buffer and client.  Every public method and   *)
(* every hardware callback is one action; the private methods are          *)
(* operators on a record of the driver's fields, composed in the order the *)
(* code calls them.  A panic (assert!, panic!, unreachable!, a slice copy  *)
(* of the wrong length) sets aborted, after which nothing runs.            *)
(*                                                                         *)
(* The controller and the CTAP client are outside this file; what the      *)
(* model keeps of them (the client's readiness, the controller's view of   *)
(* both channels, what the host has received) is taken from their          *)
(* documented contract.                                                    *)
(***************************************************************************)
EXTENDS Integers, Sequences, FiniteSets, TLC

\* ------------------------------------------------------------------ bounds
\* Byte values used in packet patterns are 0..MaxByte (device side) and
\* MaxByte+1..2*MaxByte+1 (host side).
MaxByte == 1
\* The hardware callbacks carry endpoint numbers 0..MaxEndpoint.
MaxEndpoint == 2

\* ------------------------------------------------------- program constants
\* max_packet_size of both endpoints; the length of every packet array.
PACKET_SIZE == 64
\* The one interrupt endpoint of the device (ENDPOINTS, and every literal 1
\* passed to the controller).
ENDPOINT == 1

\* -------------------------------------------------------------- data types
\* Option<T>: the empty sequence, or a one-element sequence.
None == << >>
Some(x) == << x >>
is_some(o) == o # None

Index == 1 .. PACKET_SIZE

\* [0; 64]
Zeroes == [i \in Index |-> 0]

\* Packets the CTAP client hands to transmit_packet: a byte pattern whose
\* cells differ from one index to the next, so that a copy is visible cell by
\* cell.
DevicePacket(b) == [i \in Index |-> (b + i) % (MaxByte + 1)]
DevicePackets == { DevicePacket(b) : b \in 0 .. MaxByte }

\* Packets the host sends on the OUT endpoint; disjoint from DevicePackets and
\* from Zeroes.
HostPacket(b) == [i \in Index |-> MaxByte + 1 + ((b + i) % (MaxByte + 1))]
HostPackets == { HostPacket(b) : b \in 0 .. MaxByte }

\* The slices a caller may pass to transmit_packet(&[u8]): the 64-byte
\* packets, and one slice too short and one too long.
Slices ==
    DevicePackets
      \cup { [i \in 1 .. (PACKET_SIZE - 1) |-> 0], [i \in 1 .. (PACKET_SIZE + 1) |-> 0] }

TransferTypes == { "Bulk", "Interrupt", "Control", "Isochronous" }
Endpoints == 0 .. MaxEndpoint
\* Byte counts of an OUT transaction: empty, full, and one more than full.
ByteCounts == { 0, PACKET_SIZE, PACKET_SIZE + 1 }

\* The arguments the hardware callbacks are called with: every endpoint and
\* byte count on an interrupt transfer, and the other transfer types on the
\* device's own endpoint with a full packet.
InArgs ==
    { << "Interrupt", ep >> : ep \in Endpoints }
      \cup { << tt, ENDPOINT >> : tt \in TransferTypes }
OutArgs ==
    { << "Interrupt", ep, n >> : ep \in Endpoints, n \in ByteCounts }
      \cup { << tt, ENDPOINT, PACKET_SIZE >> : tt \in TransferTypes }

\* ------------------------------------------------------------------- state
VARIABLES
    \* fields of ClientCtapHID
    tx_packet,      \* OptionalCell<[u8; 64]>: the staged outgoing packet
    pending_in,     \* Cell<bool>
    pending_out,    \* Cell<bool>
    delayed_out,    \* Cell<bool>
    buffer,         \* Buffer64: the endpoint buffer registered with the controller
    client,         \* OptionalCell<&dyn CtapUsbClient>
    aborted,        \* the kernel has panicked
    \* the CTAP client
    client_ready,   \* what can_receive_packet() answers
    \* the controller and the host
    ctrl_in,        \* IN channel: [st: "idle" | "armed" | "busy" | "done", data: Option]
    ctrl_out,       \* OUT channel: None, or Some(the bytes of the transaction held after Delay)
    \* the last operation: its name, arguments, result, and the calls it made
    op, args, ret, calls,
    step            \* parity of the number of operations so far

driver_vars == << tx_packet, pending_in, pending_out, delayed_out, buffer >>
vars ==
    << tx_packet, pending_in, pending_out, delayed_out, buffer, client, aborted,
       client_ready, ctrl_in, ctrl_out, op, args, ret, calls, step >>

\* ------------------------------------------------- results and calls made
\* Return values, as one-or-two element tuples.
Bool(b) == IF b THEN << "true" >> ELSE << "false" >>
InPacket(n) == << "Packet", n >>
InDelay == << "Delay" >>
InError == << "Error" >>
OutOk == << "Ok" >>
OutDelay == << "Delay" >>
OutError == << "Error" >>
Unit == << "()" >>
\* The call did not return: it panicked.
Panicked == << "panic" >>

\* Calls the driver makes on the controller and on the client, in order.
Call(name, ep, data) == [call |-> name, ep |-> ep, data |-> data]
endpoint_resume_in(ep) == Call("endpoint_resume_in", ep, None)
endpoint_resume_out(ep) == Call("endpoint_resume_out", ep, None)
endpoint_cancel_in(ep) == Call("endpoint_cancel_in", ep, None)
client_packet_received(buf) == Call("packet_received", 0, Some(buf))
client_packet_transmitted == Call("packet_transmitted", 0, None)

NoArgs == [tt |-> "-", ep |-> 0, n |-> 0]

\* ------------------------------------------------------ the driver's code
\* The driver's fields during one operation, with the calls made so far and
\* whether it has panicked.
Driver ==
    [ tx_packet |-> tx_packet, pending_in |-> pending_in, pending_out |-> pending_out,
      delayed_out |-> delayed_out, buffer |-> buffer, calls |-> << >>, aborted |-> FALSE ]

Emit(d, c) == [d EXCEPT !.calls = Append(@, c)]
Panic(d) == [d EXCEPT !.aborted = TRUE]
Result(d, r) == [d |-> d, ret |-> r]

\* client.map_or(false, |client| client.can_receive_packet())
can_receive_packet == is_some(client) /\ client_ready

\* Variant: the controller is told to cancel only when a packet is still
\* staged, not whenever a transmission is pending.
cancel_in_transaction_by_staged(d) ==
    LET staged == is_some(d.tx_packet)
        d1 == [d EXCEPT !.tx_packet = None]
        result == d1.pending_in
        d2 == [d1 EXCEPT !.pending_in = FALSE]
    IN  IF staged
          THEN Result(Emit(d2, endpoint_cancel_in(ENDPOINT)), result)
          ELSE Result(d2, result)

\* Variant: the controller is not told to abort the transfer.
cancel_in_transaction_silent(d) ==
    LET d1 == [d EXCEPT !.tx_packet = None]
        result == d1.pending_in
    IN  Result([d1 EXCEPT !.pending_in = FALSE], result)

\* fn cancel_in_transaction(&self) -> bool
cancel_in_transaction(d) ==
    LET d1 == [d EXCEPT !.tx_packet = None]                 \* tx_packet.take()
        result == d1.pending_in                             \* pending_in.take()
        d2 == [d1 EXCEPT !.pending_in = FALSE]
    IN  IF result
          THEN Result(Emit(d2, endpoint_cancel_in(ENDPOINT)), TRUE)
          ELSE Result(d2, FALSE)

\* Variant: cancelling the receive also forgets the held packet.
cancel_out_transaction_clears_delayed(d) ==
    Result([d EXCEPT !.pending_out = FALSE, !.delayed_out = FALSE], d.pending_out)

\* fn cancel_out_transaction(&self) -> bool
cancel_out_transaction(d) ==
    Result([d EXCEPT !.pending_out = FALSE], d.pending_out)  \* pending_out.take()

\* Variant: `||` in place of `|`, so the OUT side is skipped when the IN side
\* cancelled something.
cancel_transaction_short_circuit(d) ==
    LET i == cancel_in_transaction(d)
        o == cancel_out_transaction(i.d)
    IN  IF i.ret THEN Result(i.d, Bool(TRUE)) ELSE Result(o.d, Bool(o.ret))

\* pub fn cancel_transaction(&self) -> bool: `|` evaluates both operands.
cancel_transaction(d) ==
    LET i == cancel_in_transaction(d)
        o == cancel_out_transaction(i.d)
    IN  Result(o.d, Bool(i.ret \/ o.ret))

\* Variant: the pending IN transaction is not cancelled on delivery.
send_packet_to_client_no_cancel(d) ==
    LET buf == [i \in Index |-> d.buffer[i]]
    IN  IF d.delayed_out
          THEN Result(Panic(d), FALSE)
          ELSE IF can_receive_packet
            THEN IF ~ d.pending_out
              THEN Result(Panic(d), FALSE)
              ELSE LET d1 == [d EXCEPT !.pending_out = FALSE]
                   IN  Result(Emit(d1, client_packet_received(buf)), TRUE)
            ELSE Result([d EXCEPT !.delayed_out = TRUE], FALSE)

\* Variant: a declined delivery is not remembered.
send_packet_to_client_forgets_delay(d) ==
    LET buf == d.buffer
    IN  IF d.delayed_out
          THEN Result(Panic(d), FALSE)
          ELSE IF can_receive_packet
            THEN IF ~ d.pending_out
              THEN Result(Panic(d), FALSE)
              ELSE LET d1 == [d EXCEPT !.pending_out = FALSE]
                       c == cancel_in_transaction(d1)
                   IN  Result(Emit(c.d, client_packet_received(buf)), TRUE)
            ELSE Result(d, FALSE)

\* fn send_packet_to_client(&self) -> bool
send_packet_to_client(d) ==
    LET buf == [i \in Index |-> d.buffer[i]]                \* copy of the endpoint buffer
    IN  IF d.delayed_out
          THEN Result(Panic(d), FALSE)                      \* assert!(!delayed_out)
          ELSE IF can_receive_packet
            THEN IF ~ d.pending_out
              THEN Result(Panic(d), FALSE)                  \* assert!(pending_out.take())
              ELSE LET d1 == [d EXCEPT !.pending_out = FALSE]
                       c == cancel_in_transaction(d1)
                   IN  Result(Emit(c.d, client_packet_received(buf)), TRUE)
            ELSE Result([d EXCEPT !.delayed_out = TRUE], FALSE)

\* Variant: no check of pending_in; a new packet replaces the staged one.
transmit_packet_overwrites(d, packet) ==
    LET d1 == [d EXCEPT !.pending_in = TRUE]
    IN  IF Len(packet) # PACKET_SIZE
          THEN Result(Panic(d1), Panicked)
          ELSE LET buf == [i \in Index |-> packet[i]]
                   d2 == [d1 EXCEPT !.tx_packet = Some(buf)]
               IN  Result(Emit(d2, endpoint_resume_in(ENDPOINT)), Bool(TRUE))

\* Variant: the controller is not asked to resume IN polling.
transmit_packet_no_resume(d, packet) ==
    IF d.pending_in
      THEN Result(d, Bool(FALSE))
      ELSE LET d1 == [d EXCEPT !.pending_in = TRUE]
           IN  IF Len(packet) # PACKET_SIZE
                 THEN Result(Panic(d1), Panicked)
                 ELSE LET buf == [i \in Index |-> packet[i]]
                      IN  Result([d1 EXCEPT !.tx_packet = Some(buf)], Bool(TRUE))

\* pub fn transmit_packet(&self, packet: &[u8]) -> bool
transmit_packet(d, packet) ==
    IF d.pending_in
      THEN Result(d, Bool(FALSE))
      ELSE LET d1 == [d EXCEPT !.pending_in = TRUE]
           IN  IF Len(packet) # PACKET_SIZE
                 THEN Result(Panic(d1), Panicked)           \* copy_from_slice panics
                 ELSE LET buf == [i \in Index |-> packet[i]]
                          d2 == [d1 EXCEPT !.tx_packet = Some(buf)]
                      IN  Result(Emit(d2, endpoint_resume_in(ENDPOINT)), Bool(TRUE))

\* Variant: delayed_out.get() in place of delayed_out.take().
receive_packet_keeps_delayed(d) ==
    IF d.pending_out
      THEN Result(d, Bool(FALSE))
      ELSE LET d1 == [d EXCEPT !.pending_out = TRUE]
           IN  IF d1.delayed_out
                 THEN LET s == send_packet_to_client(d1)
                      IN  IF s.d.aborted
                            THEN Result(s.d, Panicked)
                            ELSE IF s.ret
                              THEN Result(Emit(s.d, endpoint_resume_out(ENDPOINT)), Bool(TRUE))
                              ELSE Result(s.d, Bool(TRUE))
                 ELSE Result(d1, Bool(TRUE))

\* Variant: pending_out is set only when no packet is held.
receive_packet_pending_late(d) ==
    IF d.pending_out
      THEN Result(d, Bool(FALSE))
      ELSE LET d2 == [d EXCEPT !.delayed_out = FALSE]
           IN  IF d.delayed_out
                 THEN LET s == send_packet_to_client(d2)
                      IN  IF s.d.aborted
                            THEN Result(s.d, Panicked)
                            ELSE IF s.ret
                              THEN Result(Emit(s.d, endpoint_resume_out(ENDPOINT)), Bool(TRUE))
                              ELSE Result(s.d, Bool(TRUE))
                 ELSE Result([d2 EXCEPT !.pending_out = TRUE], Bool(TRUE))

\* Variant: the OUT endpoint is resumed whenever a packet was held, delivered
\* or not.
receive_packet_resumes_always(d) ==
    IF d.pending_out
      THEN Result(d, Bool(FALSE))
      ELSE LET d1 == [d EXCEPT !.pending_out = TRUE]
               delayed == d1.delayed_out
               d2 == [d1 EXCEPT !.delayed_out = FALSE]
           IN  IF delayed
                 THEN LET s == send_packet_to_client(d2)
                      IN  IF s.d.aborted
                            THEN Result(s.d, Panicked)
                            ELSE Result(Emit(s.d, endpoint_resume_out(ENDPOINT)), Bool(TRUE))
                 ELSE Result(d2, Bool(TRUE))

\* pub fn receive_packet(&self) -> bool
receive_packet(d) ==
    IF d.pending_out
      THEN Result(d, Bool(FALSE))
      ELSE LET d1 == [d EXCEPT !.pending_out = TRUE]
               delayed == d1.delayed_out                    \* delayed_out.take()
               d2 == [d1 EXCEPT !.delayed_out = FALSE]
           IN  IF delayed
                 THEN LET s == send_packet_to_client(d2)
                      IN  IF s.d.aborted
                            THEN Result(s.d, Panicked)
                            ELSE IF s.ret
                              THEN Result(Emit(s.d, endpoint_resume_out(ENDPOINT)), Bool(TRUE))
                              ELSE Result(s.d, Bool(TRUE))
                 ELSE Result(d2, Bool(TRUE))

\* Variant: the staged packet is copied to the endpoint buffer but not taken.
packet_in_keeps_staged(d, transfer_type, endpoint) ==
    CASE transfer_type = "Bulk" -> Result(d, InError)
      [] transfer_type = "Interrupt" ->
           IF endpoint # ENDPOINT
             THEN Result(d, InError)
             ELSE IF is_some(d.tx_packet)
               THEN LET packet == d.tx_packet[1]
                        d2 == [d EXCEPT !.buffer = [i \in Index |-> packet[i]]]
                    IN  Result(d2, InPacket(PACKET_SIZE))
               ELSE Result(d, InDelay)
      [] OTHER -> Result(Panic(d), Panicked)

\* fn packet_in(&self, transfer_type, endpoint) -> InResult
packet_in(d, transfer_type, endpoint) ==
    CASE transfer_type = "Bulk" -> Result(d, InError)
      [] transfer_type = "Interrupt" ->
           IF endpoint # ENDPOINT
             THEN Result(d, InError)
             ELSE IF is_some(d.tx_packet)
               THEN LET packet == d.tx_packet[1]            \* tx_packet.take()
                        d1 == [d EXCEPT !.tx_packet = None]
                        d2 == [d1 EXCEPT !.buffer = [i \in Index |-> packet[i]]]
                    IN  Result(d2, InPacket(PACKET_SIZE))
               ELSE Result(d, InDelay)
      [] OTHER -> Result(Panic(d), Panicked)                \* unreachable!()

\* Variant: only short packets are refused (`<` in place of `!=`).
packet_out_refuses_short(d, transfer_type, endpoint, packet_bytes) ==
    CASE transfer_type = "Bulk" -> Result(d, OutError)
      [] transfer_type = "Interrupt" ->
           IF endpoint # ENDPOINT
             THEN Result(d, OutError)
             ELSE IF packet_bytes < PACKET_SIZE
               THEN Result(d, OutError)
               ELSE LET s == send_packet_to_client(d)
                    IN  IF s.d.aborted
                          THEN Result(s.d, Panicked)
                          ELSE IF s.ret
                            THEN Result(s.d, OutOk)
                            ELSE Result(s.d, OutDelay)
      [] OTHER -> Result(Panic(d), Panicked)

\* Variant: the result of the delivery is not looked at.
packet_out_always_ok(d, transfer_type, endpoint, packet_bytes) ==
    CASE transfer_type = "Bulk" -> Result(d, OutError)
      [] transfer_type = "Interrupt" ->
           IF endpoint # ENDPOINT
             THEN Result(d, OutError)
             ELSE IF packet_bytes # PACKET_SIZE
               THEN Result(d, OutError)
               ELSE LET s == send_packet_to_client(d)
                    IN  IF s.d.aborted
                          THEN Result(s.d, Panicked)
                          ELSE Result(s.d, OutOk)
      [] OTHER -> Result(Panic(d), Panicked)

\* Variant: the endpoint number is not looked at.
packet_out_any_endpoint(d, transfer_type, endpoint, packet_bytes) ==
    CASE transfer_type = "Bulk" -> Result(d, OutError)
      [] transfer_type = "Interrupt" ->
           IF packet_bytes # PACKET_SIZE
             THEN Result(d, OutError)
             ELSE LET s == send_packet_to_client(d)
                  IN  IF s.d.aborted
                        THEN Result(s.d, Panicked)
                        ELSE IF s.ret
                          THEN Result(s.d, OutOk)
                          ELSE Result(s.d, OutDelay)
      [] OTHER -> Result(Panic(d), Panicked)

\* fn packet_out(&self, transfer_type, endpoint, packet_bytes) -> OutResult
packet_out(d, transfer_type, endpoint, packet_bytes) ==
    CASE transfer_type = "Bulk" -> Result(d, OutError)
      [] transfer_type = "Interrupt" ->
           IF endpoint # ENDPOINT
             THEN Result(d, OutError)
             ELSE IF packet_bytes # PACKET_SIZE
               THEN Result(d, OutError)
               ELSE LET s == send_packet_to_client(d)
                    IN  IF s.d.aborted
                          THEN Result(s.d, Panicked)
                          ELSE IF s.ret
                            THEN Result(s.d, OutOk)
                            ELSE Result(s.d, OutDelay)
      [] OTHER -> Result(Panic(d), Panicked)                \* unreachable!()

\* Variant: no check that the staged packet has been taken.
packet_transmitted_unchecked(d, endpoint) ==
    IF endpoint # ENDPOINT
      THEN Result(Panic(d), Panicked)
      ELSE LET d1 == [d EXCEPT !.pending_in = FALSE]
           IN  IF is_some(client)
                 THEN Result(Emit(d1, client_packet_transmitted), Unit)
                 ELSE Result(d1, Unit)

\* Variant: pending_in is cleared before the staged packet is looked at.
packet_transmitted_clears_first(d, endpoint) ==
    IF endpoint # ENDPOINT
      THEN Result(Panic(d), Panicked)
      ELSE LET d1 == [d EXCEPT !.pending_in = FALSE]
           IN  IF is_some(d.tx_packet)
                 THEN Result(Panic(d1), Panicked)
                 ELSE IF is_some(client)
                   THEN Result(Emit(d1, client_packet_transmitted), Unit)
                   ELSE Result(d1, Unit)

\* fn packet_transmitted(&self, endpoint)
packet_transmitted(d, endpoint) ==
    IF endpoint # ENDPOINT
      THEN Result(Panic(d), Panicked)
      ELSE IF is_some(d.tx_packet)
        THEN Result(Panic(d), Panicked)
        ELSE LET d1 == [d EXCEPT !.pending_in = FALSE]
             IN  IF is_some(client)
                   THEN Result(Emit(d1, client_packet_transmitted), Unit)
                   ELSE Result(d1, Unit)

\* ------------------------------------------- the controller and the host
\* The controller's two channels, as its contract describes them:
\* endpoint_resume_in asks for an IN-ready callback; a packet handed over by
\* an IN-ready callback is in flight ("busy") until its transmission
\* completes ("done": the host has it) or endpoint_cancel_in aborts it; an OUT
\* transaction answered with Delay is held until endpoint_resume_out.
InIdle == [st |-> "idle", data |-> None]
InArmed == [st |-> "armed", data |-> None]
InBusy(packet) == [st |-> "busy", data |-> Some(packet)]
InDone(packet) == [st |-> "done", data |-> Some(packet)]

RECURSIVE InAfterCalls(_, _)
InAfterCalls(c, cs) ==
    IF cs = << >>
      THEN c
      ELSE InAfterCalls(
             CASE Head(cs).call = "endpoint_resume_in" ->
                    IF c.st = "busy" THEN c ELSE InArmed   \* a transfer in flight goes on
               [] Head(cs).call = "endpoint_cancel_in" -> InIdle
               [] OTHER -> c,
             Tail(cs))

RECURSIVE OutAfterCalls(_, _)
OutAfterCalls(c, cs) ==
    IF cs = << >>
      THEN c
      ELSE OutAfterCalls(
             IF Head(cs).call = "endpoint_resume_out" THEN None ELSE c,
             Tail(cs))

\* The DMA of an OUT transaction of n bytes into the endpoint buffer.
HwWrite(buf, data, n) == [i \in Index |-> IF i <= n THEN data[i] ELSE buf[i]]

\* ---------------------------------------------------------------- actions
\* What every operation leaves behind: the driver's fields, the record of
\* the operation, and the controller's channels after the calls it made.
Finish(name, a, r, cin, cout) ==
    /\ tx_packet' = r.d.tx_packet
    /\ pending_in' = r.d.pending_in
    /\ pending_out' = r.d.pending_out
    /\ delayed_out' = r.d.delayed_out
    /\ buffer' = r.d.buffer
    /\ aborted' = r.d.aborted
    /\ op' = name
    /\ args' = a
    /\ ret' = r.ret
    /\ calls' = r.d.calls
    /\ step' = 1 - step
    /\ ctrl_in' = InAfterCalls(cin, r.d.calls)
    /\ ctrl_out' = OutAfterCalls(cout, r.d.calls)

\* pub fn set_client(&self, client)
SetClient ==
    /\ ~ aborted
    /\ client = None
    /\ client' = Some("client")
    /\ op' = "set_client"
    /\ args' = NoArgs
    /\ ret' = Unit
    /\ calls' = << >>
    /\ step' = 1 - step
    /\ UNCHANGED << driver_vars, aborted, client_ready, ctrl_in, ctrl_out >>

\* The CTAP client becomes ready, or stops being ready, to take a packet.
ClientReady ==
    /\ ~ aborted
    /\ is_some(client)
    /\ client_ready' = ~ client_ready
    /\ UNCHANGED << driver_vars, client, aborted, ctrl_in, ctrl_out,
                    op, args, ret, calls, step >>

Transmit(packet) ==
    /\ ~ aborted
    /\ Finish("transmit", [tt |-> "-", ep |-> 0, n |-> Len(packet)],
              transmit_packet(Driver, packet), ctrl_in, ctrl_out)
    /\ UNCHANGED << client, client_ready >>

Receive ==
    /\ ~ aborted
    /\ Finish("receive", NoArgs, receive_packet(Driver), ctrl_in, ctrl_out)
    /\ UNCHANGED << client, client_ready >>

Cancel ==
    /\ ~ aborted
    /\ Finish("cancel", NoArgs, cancel_transaction(Driver), ctrl_in, ctrl_out)
    /\ UNCHANGED << client, client_ready >>

\* The controller's IN-ready callback.
PacketIn(transfer_type, endpoint) ==
    /\ ~ aborted
    /\ LET r == packet_in(Driver, transfer_type, endpoint)
           cin == IF r.ret = InPacket(PACKET_SIZE) THEN InBusy(r.d.buffer)
                  ELSE IF r.ret = InDelay /\ ctrl_in.st = "armed" THEN InIdle
                  ELSE ctrl_in
       IN  Finish("packet_in", [tt |-> transfer_type, ep |-> endpoint, n |-> 0],
                  r, cin, ctrl_out)
    /\ UNCHANGED << client, client_ready >>

\* The controller's OUT-ready callback: the hardware has written the
\* transaction's bytes to the endpoint buffer (unless the channel is held,
\* when it accepts nothing from the host), then calls packet_out.
PacketOut(transfer_type, endpoint, packet_bytes, data) ==
    /\ ~ aborted
    /\ LET written == transfer_type = "Interrupt" /\ endpoint = ENDPOINT /\ ctrl_out = None
           d0 == IF written
                   THEN [Driver EXCEPT !.buffer = HwWrite(@, data, packet_bytes)]
                   ELSE Driver
           r == packet_out(d0, transfer_type, endpoint, packet_bytes)
           cout == IF r.ret = OutDelay /\ written THEN Some(d0.buffer) ELSE ctrl_out
       IN  Finish("packet_out", [tt |-> transfer_type, ep |-> endpoint, n |-> packet_bytes],
                  r, ctrl_in, cout)
    /\ UNCHANGED << client, client_ready >>

\* The controller's transmission-complete callback.
PacketTransmitted(endpoint) ==
    /\ ~ aborted
    /\ LET r == packet_transmitted(Driver, endpoint)
           cin == IF r.d.aborted THEN ctrl_in
                  ELSE IF ctrl_in.st = "busy" THEN InDone(ctrl_in.data[1])
                  ELSE InIdle
       IN  Finish("packet_transmitted", [tt |-> "-", ep |-> endpoint, n |-> 0], r,
                  cin, ctrl_out)
    /\ UNCHANGED << client, client_ready >>

\* ClientCtapHID::new
Init ==
    /\ tx_packet = None
    /\ pending_in = FALSE
    /\ pending_out = FALSE
    /\ delayed_out = FALSE
    /\ buffer = Zeroes
    /\ client = None
    /\ aborted = FALSE
    /\ client_ready = FALSE
    /\ ctrl_in = InIdle
    /\ ctrl_out = None
    /\ op = "new"
    /\ args = NoArgs
    /\ ret = Unit
    /\ calls = << >>
    /\ step = 0

\* Any caller, any client and any controller: every method and every callback
\* may run at any time with any argument.
Next ==
    \/ SetClient
    \/ ClientReady
    \/ \E packet \in Slices : Transmit(packet)
    \/ Receive
    \/ Cancel
    \/ \E a \in InArgs : PacketIn(a[1], a[2])
    \/ \E a \in OutArgs, data \in HostPackets : PacketOut(a[1], a[2], a[3], data)
    \/ \E ep \in Endpoints : PacketTransmitted(ep)

Spec == Init /\ [][Next]_vars

\* A controller that obeys its contract, and callers that pass 64-byte
\* packets: callbacks come for the interrupt endpoint only, IN-ready only while
\* no transfer is in flight, OUT-ready only while the OUT channel is not held,
\* transmission-complete only for a packet in flight.  The client's readiness
\* stays free.
TransmitPacket == \E packet \in DevicePackets : Transmit(packet)
InReady == ctrl_in.st # "busy" /\ PacketIn("Interrupt", ENDPOINT)
OutReady ==
    /\ ctrl_out = None
    /\ \E n \in ByteCounts, data \in HostPackets : PacketOut("Interrupt", ENDPOINT, n, data)
TransmissionComplete == ctrl_in.st = "busy" /\ PacketTransmitted(ENDPOINT)

NextContract ==
    \/ SetClient
    \/ ClientReady
    \/ TransmitPacket
    \/ Receive
    \/ Cancel
    \/ InReady
    \/ OutReady
    \/ TransmissionComplete

SpecContract == Init /\ [][NextContract]_vars

\* The same, with a controller that does not stall: asked to resume IN polling
\* it eventually fires IN-ready, and a packet in flight eventually completes.
SpecFair ==
    /\ Init
    /\ [][NextContract]_vars
    /\ WF_vars(ctrl_in.st = "armed" /\ InReady)
    /\ WF_vars(TransmissionComplete)

\* ------------------------------------------------------------- properties
\* The step is a call of the operation `name` (a change of the client's
\* readiness is no operation of the driver and leaves op and step alone).
Called(name) == op' = name /\ step' # step

\* The packets handed to the client's packet_received, in order.
RECURSIVE ReceivedBy(_)
ReceivedBy(cs) ==
    IF cs = << >>
      THEN << >>
      ELSE IF Head(cs).call = "packet_received"
        THEN << Head(cs).data[1] >> \o ReceivedBy(Tail(cs))
        ELSE ReceivedBy(Tail(cs))

Delivers(cs) == ReceivedBy(cs) # << >>

\* The names of the calls made, in order.
CallNames(cs) == [i \in DOMAIN cs |-> cs[i].call]

C2_Original ==
    [][ (Called("receive") /\ Delivers(calls'))
          => /\ is_some(ctrl_out)
             /\ ReceivedBy(calls') = << ctrl_out[1] >> ]_vars

\* C3, as stated: DelayedOut implies PendingOut in every reachable state.
C3_Original == delayed_out => pending_out

\* C3, amended: DelayedOut implies PendingOut after every receive() call, and
\* once it holds it stays until an OUT-ready callback or a cancel() (the only
\* operations that leave DelayedOut set with PendingOut false).
C3_DelayedImpliesPendingAfterReceive ==
    [][ /\ Called("receive") => (delayed_out' => pending_out')
        /\ ((delayed_out => pending_out) /\ ~ Called("packet_out") /\ ~ Called("cancel"))
             => (delayed_out' => pending_out') ]_vars

\* A receive() whose delivery the client declined: the packet stays held and
\* the receive stays pending.
C3_Witness ==
    /\ op = "receive"
    /\ ret = Bool(TRUE)
    /\ delayed_out
    /\ pending_out
    /\ calls = << >>

\* C4: a staged outgoing packet implies PendingIn.
C4_StagedImpliesPendingIn == is_some(tx_packet) => pending_in

\* A transmit() has just staged a packet.
C4_Witness ==
    /\ op = "transmit"
    /\ ret = Bool(TRUE)
    /\ is_some(tx_packet)
    /\ pending_in

\* C5: transmit() while PendingIn is true returns false, changes no field
\* (the staged packet is not replaced and nothing is queued) and calls nothing.
C5_TransmitWhilePendingRejected ==
    [][ (pending_in /\ Called("transmit"))
          => /\ ret' = Bool(FALSE)
             /\ UNCHANGED << tx_packet, pending_in, pending_out, delayed_out, buffer >>
             /\ calls' = << >>
             /\ ~ aborted' ]_vars

\* A transmit() has just been rejected while another packet is staged.
C5_Witness ==
    /\ op = "transmit"
    /\ ret = Bool(FALSE)
    /\ pending_in
    /\ is_some(tx_packet)
    /\ calls = << >>

\* C6: with a packet P staged (transmit(P) returned true and neither cancel()
\* nor a delivered OUT packet has removed it), the IN-ready callback on the
\* interrupt endpoint returns Packet(64), leaves P in the endpoint buffer and
\* the staged packet consumed; with that packet handed over, the
\* transmission-complete callback clears PendingIn and calls the client's
\* packet_transmitted exactly once.
C6_TransmitThenInReadyThenComplete ==
    [][ /\ (is_some(tx_packet) /\ Called("packet_in")
              /\ args'.tt = "Interrupt" /\ args'.ep = ENDPOINT)
             => /\ ret' = InPacket(PACKET_SIZE)
                /\ buffer' = tx_packet[1]
                /\ tx_packet' = None
                /\ pending_in'
                /\ calls' = << >>
                /\ ~ aborted'
        /\ (pending_in /\ tx_packet = None /\ Called("packet_transmitted")
              /\ args'.ep = ENDPOINT)
             => /\ ~ pending_in'
                /\ tx_packet' = None
                /\ is_some(client) => calls' = << client_packet_transmitted >>
                /\ ~ aborted' ]_vars

\* The transmission of a packet handed over by IN-ready has just completed:
\* the host has the packet, the client has been told, nothing is pending.
C6_Witness ==
    /\ op = "packet_transmitted"
    /\ ctrl_in.st = "done"
    /\ ctrl_in.data[1] \in DevicePackets
    /\ buffer = ctrl_in.data[1]
    /\ calls = << client_packet_transmitted >>
    /\ ~ pending_in
    /\ tx_packet = None

\* C7: cancel() ends with PendingIn false, PendingOut false and nothing
\* staged; a cancel() right after a cancel() returns false and changes nothing.
C7_CancelClearsAndIsIdempotent ==
    [][ Called("cancel")
          => /\ ~ pending_in'
             /\ ~ pending_out'
             /\ tx_packet' = None
             /\ ~ aborted'
             /\ op = "cancel"
                  => /\ ret' = Bool(FALSE)
                     /\ calls' = << >>
                     /\ UNCHANGED driver_vars ]_vars

\* A cancel() has just cancelled a pending transmission.
C7_Witness ==
    /\ op = "cancel"
    /\ ret = Bool(TRUE)
    /\ CallNames(calls) = << "endpoint_cancel_in" >>
    /\ ~ pending_in
    /\ ~ pending_out
    /\ tx_packet = None

\* C8: cancel() returns true exactly when PendingIn or PendingOut was true
\* before it, and calls endpoint_cancel_in (once, and nothing else) exactly
\* when PendingIn was true before it.
C8_CancelResult ==
    [][ Called("cancel")
          => /\ ret' = Bool(pending_in \/ pending_out)
             /\ calls' = IF pending_in THEN << endpoint_cancel_in(ENDPOINT) >> ELSE << >> ]_vars

\* A cancel() has just returned true for a pending receive alone, without a
\* controller call.
C8_Witness ==
    /\ op = "cancel"
    /\ ret = Bool(TRUE)
    /\ calls = << >>

\* C9: an operation that delivers an OUT packet to the client leaves nothing
\* staged and PendingIn false; if PendingIn was true before it, the controller
\* was told endpoint_cancel_in before packet_received was called.
C9_DeliveryPreemptsTransmit ==
    [][ (step' # step /\ Delivers(calls'))
          => /\ tx_packet' = None
             /\ ~ pending_in'
             /\ pending_in
                  => \E i, j \in DOMAIN calls' :
                       /\ i < j
                       /\ calls'[i] = endpoint_cancel_in(ENDPOINT)
                       /\ calls'[j].call = "packet_received" ]_vars

\* An OUT-ready callback has just delivered a packet and, before that,
\* cancelled the pending transmission.
C9_Witness ==
    /\ op = "packet_out"
    /\ ret = OutOk
    /\ CallNames(calls) = << "endpoint_cancel_in", "packet_received" >>
    /\ tx_packet = None
    /\ ~ pending_in

\* C10: an OUT-ready callback on the interrupt endpoint with a byte count
\* other than 64 returns Error, calls nothing, and leaves PendingOut,
\* DelayedOut, PendingIn and the staged packet as they were.
C10_WrongSizeIsError ==
    [][ (Called("packet_out") /\ args'.tt = "Interrupt" /\ args'.ep = ENDPOINT
           /\ args'.n # PACKET_SIZE)
          => /\ ret' = OutError
             /\ calls' = << >>
             /\ UNCHANGED << pending_out, delayed_out, pending_in, tx_packet >>
             /\ ~ aborted' ]_vars

\* An over-long OUT transaction has just been refused although a receive was
\* pending, the client ready and a packet staged.
C10_Witness ==
    /\ op = "packet_out"
    /\ args = [tt |-> "Interrupt", ep |-> ENDPOINT, n |-> PACKET_SIZE + 1]
    /\ ret = OutError
    /\ pending_out
    /\ can_receive_packet
    /\ is_some(tx_packet)

\* C11: receive() while pending_out is true returns false, changes no flag,
\* delivers nothing and calls nothing on the controller; while pending_out is
\* false it returns true, and it calls endpoint_resume_out exactly when it
\* delivered a held packet to the client.
C11_ReceiveResult ==
    [][Called("receive") =>
         IF pending_out
           THEN /\ ret' = Bool(FALSE)
                /\ UNCHANGED << driver_vars, ctrl_in, ctrl_out, aborted >>
                /\ calls' = << >>
           ELSE /\ ret' = Bool(TRUE)
                /\ ~aborted'
                /\ (\E i \in DOMAIN calls' : calls'[i] = endpoint_resume_out(ENDPOINT))
                       <=> (delayed_out /\ Delivers(calls'))
                /\ \A i \in DOMAIN calls' :
                       calls'[i].call \in { "endpoint_cancel_in", "packet_received",
                                           "endpoint_resume_out" }]_vars

\* A receive() refused while an earlier one is pending and a packet is held:
\* the held packet stays held.
C11_Witness ==
    /\ op = "receive"
    /\ ret = Bool(FALSE)
    /\ pending_out
    /\ calls = << >>
    /\ delayed_out

\* A 64-byte OUT-ready callback on the interrupt endpoint.
OutReady64 ==
    /\ Called("packet_out")
    /\ args' = [tt |-> "Interrupt", ep |-> ENDPOINT, n |-> PACKET_SIZE]

InFlight ==
    (IF is_some(tx_packet) THEN 1 ELSE 0) + (IF ctrl_in.st = "busy" THEN 1 ELSE 0)

\* C13: at most one outgoing packet is in flight (staged, or handed to the
\* controller and neither completed nor cancelled), and while one is in flight
\* pending_in is set, so that no transmit() accepts a second one.
C13_OneInFlight ==
    /\ InFlight <= 1
    /\ (InFlight = 1 /\ ~ aborted) => pending_in

\* A transmit() refused while the controller is sending the previous packet.
C13_Witness ==
    /\ ctrl_in.st = "busy"
    /\ op = "transmit"
    /\ ret = Bool(FALSE)
    /\ pending_in
    /\ tx_packet = None

\* C14: delayed_out goes from true to false only in a receive() step that
\* delivers the held packet to the client; cancel, transmit, the three
\* callbacks and a receive() whose delivery is declined leave it set.
C14_DelayedClearedByDelivery ==
    [][(delayed_out /\ ~ delayed_out') =>
         /\ Called("receive")
         /\ ret' = Bool(TRUE)
         /\ Len(ReceivedBy(calls')) = 1
         /\ ~ aborted']_vars

\* A receive() that delivered the held packet, pre-empting a staged transmit,
\* and left delayed_out cleared.
C14_Witness ==
    /\ op = "receive"
    /\ CallNames(calls) = << "endpoint_cancel_in", "packet_received", "endpoint_resume_out" >>
    /\ ~ delayed_out

\* C15: a transmission-complete callback on endpoint 1 while a packet is staged
\* aborts, notifies nobody and leaves pending_in and the staged packet as they
\* were; with nothing staged it clears pending_in and calls the installed
\* client's packet_transmitted exactly once, and nothing else.
C15_TransmissionComplete ==
    [][(Called("packet_transmitted") /\ args'.ep = ENDPOINT) =>
         IF is_some(tx_packet)
           THEN /\ aborted' /\ ret' = Panicked
                /\ calls' = << >>
                /\ UNCHANGED driver_vars
           ELSE /\ ~ aborted' /\ ret' = Unit
                /\ ~ pending_in'
                /\ calls' = IF is_some(client) THEN << client_packet_transmitted >> ELSE << >>
                /\ UNCHANGED << tx_packet, pending_out, delayed_out, buffer >>]_vars

\* Transmission-complete arrived while the packet was still staged: aborted,
\* the client was not told, pending_in is still set.
C15_Witness ==
    /\ aborted
    /\ op = "packet_transmitted"
    /\ args.ep = ENDPOINT
    /\ is_some(tx_packet)
    /\ pending_in
    /\ is_some(client)
    /\ calls = << >>

\* An IN-ready or OUT-ready interrupt callback for an endpoint other than the
\* driver's returns Error, calls nobody and changes nothing.
WrongEndpointIsError ==
    (/\ Called("packet_in") \/ Called("packet_out")
     /\ args'.tt = "Interrupt"
     /\ args'.ep # ENDPOINT)
       => /\ ret' = (IF op' = "packet_in" THEN InError ELSE OutError)
          /\ calls' = << >>
          /\ ~ aborted'
          /\ UNCHANGED << driver_vars, ctrl_in, ctrl_out >>

\* C16, as stated: an IN-ready or OUT-ready interrupt callback for an endpoint
\* other than 1 returns Error, does not invoke the client and leaves the staged
\* packet and the three flags unchanged; and no hardware-to-core callback,
\* transmission-complete included, aborts on an invalid endpoint.
C16_Original ==
    [][/\ WrongEndpointIsError
       /\ (Called("packet_transmitted") /\ args'.ep # ENDPOINT) => ~ aborted']_vars

\* C16: an IN-ready or OUT-ready interrupt callback for an endpoint other than
\* 1 returns Error, does not invoke the client and leaves the staged packet
\* and the three flags unchanged; a transmission-complete callback for an
\* endpoint other than 1 aborts, calling nobody and changing no flag.
C16_WrongEndpoint ==
    [][/\ WrongEndpointIsError
       /\ (Called("packet_transmitted") /\ args'.ep # ENDPOINT)
            => /\ aborted' /\ ret' = Panicked
               /\ calls' = << >>
               /\ UNCHANGED driver_vars]_vars

\* A 64-byte OUT-ready callback for another endpoint, refused although a
\* receive is pending and the client is ready.
C16_Witness ==
    /\ op = "packet_out"
    /\ args.tt = "Interrupt" /\ args.ep # ENDPOINT /\ args.n = PACKET_SIZE
    /\ ret = OutError
    /\ pending_out
    /\ can_receive_packet
    /\ ~ delayed_out

C18_DelayedIffHeld ==
    [][/\ delayed_out <=> is_some(ctrl_out)
       /\ delayed_out' <=> is_some(ctrl_out')
       /\ (step' # step /\ \E i \in DOMAIN calls' : calls'[i].call = "endpoint_resume_out")
            => is_some(ctrl_out) /\ ctrl_out' = None]_vars

\* A cancel() while a packet is held: the receive is cancelled, the packet
\* stays held and the flag stays set.
C18_Witness ==
    /\ op = "cancel"
    /\ ret = Bool(TRUE)
    /\ delayed_out
    /\ is_some(ctrl_out)
    /\ ~ pending_out

====
